---- MODULE Spec2Model ----
(***************************************************************************)
(* Model of trace_sankey_helpers.py: the helpers that turn inputs vectors, *)
(* flow matrices and traces of samples into edge-list records, the widget  *)
(* wrappers show_sample / animate_samples and the variance wrappers.       *)
(*                                                                         *)
(* Python indices are 0-based; TLA+ sequences are 1-based.  A Python       *)
(* position p of a list is element p + 1 of the modelling sequence; every  *)
(* index that the program itself produces (sample tags, frame indices) is  *)
(* kept 0-based as in the source.                                          *)
(***************************************************************************)
EXTENDS Integers, Sequences, FiniteSets, TLC

VARIABLES
    processes,        \* the process registry
    possible_inputs,  \* the names of the possible external inputs
    trace,            \* the samples, each an inputs vector and a flow matrix
    call,             \* the function running or last run, with its arguments
    ret,              \* what the last completed call returned or raised
    widget,           \* the widget object the caller holds or the box displays
    pc,               \* position of the play handler of animate_samples
    isamp,            \* loop variable of the play handler
    frames,           \* the samples the play handler has shown since the click
    shown,            \* index of the sample whose links the widget displays
    scale             \* the colour scale object of weave_variance

vars == <<processes, possible_inputs, trace, call, ret, widget, pc, isamp, frames, shown, scale>>

env == <<processes, possible_inputs, trace>>

player == <<pc, isamp, frames, shown>>

(***************************************************************************)
(* Bounds of the model.                                                    *)
(***************************************************************************)
\* number of processes in the registry (the flow matrix is NumProc x NumProc)
NumProc == 2
\* number of possible external inputs
NumIn == 1
\* largest magnitude of an entry; entries range over -1 .. MaxVal
MaxVal == 2
\* longest trace handed to the converters and to show_sample
MaxLen == 4
\* largest burn-in argument
MaxBurn == 2
\* largest thinning argument
MaxThin == 2
\* longest trace handed to animate_samples
MaxAnimLen == 21

None == "None"

(***************************************************************************)
(* Environment: registry, input names and traces.                          *)
(***************************************************************************)
ProcNames == <<"A", "B", "C", "D">>

InputNames == <<"x", "y", "z">>

RECURSIVE Gcd(_, _)
Gcd(a, b) == IF b = 0 THEN a ELSE Gcd(b, a % b)

RECURSIVE LcmUpTo(_)
LcmUpTo(n) == IF n <= 1 THEN 1 ELSE (LcmUpTo(n - 1) * n) \div Gcd(LcmUpTo(n - 1), n)

\* Entries are floats in the program.  The model keeps them as integers in
\* units of 1/Unit, so that the mean of up to MaxLen entries is exact.
Unit == LcmUpTo(MaxLen)

NumVals == MaxVal + 2

NumCells == NumIn + NumProc * NumProc

\* iteration orders of the registry: that of ProcNames, and its reverse
InOrder == {[k \in 1..NumProc |-> k]}

Orders == InOrder \cup {[k \in 1..NumProc |-> NumProc + 1 - k]}

\* an ordered mapping process id -> metadata, in the iteration order p
Registry(p) == [k \in 1..NumProc |-> [id |-> ProcNames[p[k]], meta |-> "_"]]

\* first samples whose entries all equal 0 but for at most one, drawn from vals
Bases(vals) ==
    {[c \in 1..NumCells |-> 0]}
        \cup {[c \in 1..NumCells |-> IF c = e THEN v ELSE 0] : e \in 1..NumCells, v \in vals}

\* first samples whose entries step through -1 .. MaxVal from cell to cell,
\* but for at most one that takes any value
Stepped ==
    {[c \in 1..NumCells |-> ((a + d * c) % NumVals) - 1] : a, d \in 0..(NumVals - 1)}
        \cup {[c \in 1..NumCells |-> IF c = e THEN v ELSE ((a + d * c) % NumVals) - 1] :
                 a \in 0..(NumVals - 1), d \in 0..(NumVals - 1), e \in 1..NumCells,
                 v \in (0 - 1)..MaxVal}

\* entry c of the sample at Python position s of the trace that starts with
\* base b: the entries advance by one unit per sample, and by one more at
\* every tenth sample, wrapping around from MaxVal to -1
Entry(b, s, c) == Unit * (((b[c] + 1 + s + (s \div 10)) % NumVals) - 1)

SampleOf(b, s) ==
    [inputs |-> [c \in 1..NumIn |-> Entry(b, s, c)],
     F |-> [r \in 1..NumProc |-> [c \in 1..NumProc |-> Entry(b, s, NumIn + (r - 1) * NumProc + c)]]]

TraceOf(b, len) == [s \in 1..len |-> SampleOf(b, s - 1)]

(***************************************************************************)
(* inputs_flows_as_dataframe                                               *)
(***************************************************************************)
\* list(processes.keys())
ProcessIds(procs) == [k \in 1..Len(procs) |-> procs[k].id]

\* the test `I[i] > 0` / `F[i, j] > 0` that admits an entry as an edge
PositiveNonStrict(v) == v >= 0

Positive(v) == v > 0

\* the record appended for an input entry
InputRecord(pin, I, i) == <<"inputs", pin[i], "?", I[i]>>

\* the record appended for a matrix cell
FlowRecordTransposed(ids, F, i, j) == <<ids[j], ids[i], "?", F[i][j]>>

FlowRecord(ids, F, i, j) == <<ids[i], ids[j], "?", F[i][j]>>

\* for i in range(len(I)): if I[i] > 0: flows.append(...)
RECURSIVE InputLoop(_, _, _, _)
InputLoop(pin, I, i, flows) ==
    IF i > Len(I) THEN flows
    ELSE InputLoop(pin, I, i + 1,
                   IF Positive(I[i]) THEN Append(flows, InputRecord(pin, I, i)) ELSE flows)

\* for i in range(Np): for j in range(Np): if F[i, j] > 0: flows.append(...)
RECURSIVE FlowLoop(_, _, _, _, _, _)
FlowLoop(ids, F, Np, i, j, flows) ==
    IF i > Np THEN flows
    ELSE IF j > Np THEN FlowLoop(ids, F, Np, i + 1, 1, flows)
    ELSE FlowLoop(ids, F, Np, i, j + 1,
                  IF Positive(F[i][j]) THEN Append(flows, FlowRecord(ids, F, i, j)) ELSE flows)

inputs_flows_as_dataframe(procs, pin, I, F) ==
    FlowLoop(ProcessIds(procs), F, Len(F), 1, 1, InputLoop(pin, I, 1, <<>>))

(***************************************************************************)
(* flows_from_trace                                                        *)
(***************************************************************************)
\* number of Python positions nburn, nburn + thin, ... below len
SliceLen(len, nburn, thin) == IF nburn >= len THEN 0 ELSE (len - nburn + thin - 1) \div thin

\* trace[name, nburn::thin]: the samples at positions nburn, nburn + thin, ...
SliceIgnoringBurn(tr, nburn, thin) ==
    [k \in 1..SliceLen(Len(tr), 0, thin) |-> tr[(k - 1) * thin + 1]]

Slice(tr, nburn, thin) ==
    [k \in 1..SliceLen(Len(tr), nburn, thin) |-> tr[nburn + (k - 1) * thin + 1]]

\* the value written to the 'sample' column for the i-th row of the slice:
\* the loop variable of `for i in range(flows.shape[0])`, 0-based
SampleTagTracePosition(i, nburn, thin) == nburn + (i - 1) * thin

SampleTag(i, nburn, thin) == i - 1

\* the test `inputs[i, j] > 0` / `flows[i, j, k] > 0`
TracePositiveNonStrict(v) == v >= 0

TracePositive(v) == v > 0

TraceInputRecord(pin, inputs, i, j, tag) == <<"inputs", pin[j], "?", tag, inputs[i][j]>>

TraceFlowRecord(ids, flows, i, j, k, tag) == <<ids[j], ids[k], "?", tag, flows[i][j][k]>>

\* for j in range(inputs.shape[1]): if inputs[i, j] > 0: rows.append(...)
RECURSIVE TraceInputLoop(_, _, _, _, _, _)
TraceInputLoop(pin, inputs, i, j, tag, rows) ==
    IF j > Len(inputs[i]) THEN rows
    ELSE TraceInputLoop(pin, inputs, i, j + 1, tag,
                        IF TracePositive(inputs[i][j])
                        THEN Append(rows, TraceInputRecord(pin, inputs, i, j, tag))
                        ELSE rows)

\* for j in range(Np): for k in range(Np): if flows[i, j, k] > 0: rows.append(...)
RECURSIVE TraceFlowLoop(_, _, _, _, _, _, _, _)
TraceFlowLoop(ids, flows, Np, i, j, k, tag, rows) ==
    IF j > Np THEN rows
    ELSE IF k > Np THEN TraceFlowLoop(ids, flows, Np, i, j + 1, 1, tag, rows)
    ELSE TraceFlowLoop(ids, flows, Np, i, j, k + 1, tag,
                       IF TracePositive(flows[i][j][k])
                       THEN Append(rows, TraceFlowRecord(ids, flows, i, j, k, tag))
                       ELSE rows)

\* for i in range(flows.shape[0]): the inputs loop, then the flows loop
RECURSIVE SampleLoop(_, _, _, _, _, _, _, _)
SampleLoop(ids, pin, inputs, flows, nburn, thin, i, rows) ==
    IF i > Len(flows) THEN rows
    ELSE SampleLoop(ids, pin, inputs, flows, nburn, thin, i + 1,
                    TraceFlowLoop(ids, flows, Len(flows[i]), i, 1, 1, SampleTag(i, nburn, thin),
                                  TraceInputLoop(pin, inputs, i, 1, SampleTag(i, nburn, thin), rows)))

flows_from_trace(procs, pin, tr, nburn, thin) ==
    LET sl == Slice(tr, nburn, thin)
        inputs == [k \in 1..Len(sl) |-> sl[k].inputs]
        flows == [k \in 1..Len(sl) |-> sl[k].F]
    IN  SampleLoop(ProcessIds(procs), pin, inputs, flows, nburn, thin, 1, <<>>)

(***************************************************************************)
(* The converters called on the samples of a trace.                        *)
(***************************************************************************)
NoCall == [fn |-> None]

NoValue == [kind |-> None]

Frame(records) == [kind |-> "frame", records |-> records]

EnvInit(orders, bases, maxlen) ==
    /\ processes \in {Registry(p) : p \in orders}
    /\ possible_inputs = SubSeq(InputNames, 1, NumIn)
    /\ trace \in {TraceOf(b, len) : b \in bases, len \in 0..maxlen}

Idle ==
    /\ call = NoCall
    /\ ret = NoValue
    /\ widget = NoValue
    /\ pc = "idle"
    /\ isamp = 0
    /\ frames = <<>>
    /\ shown = 0
    /\ scale = NoValue

ConvInit ==
    /\ EnvInit(Orders, Stepped, MaxLen)
    /\ Idle

\* The converters are pure: each is applied once to the inputs drawn by Init.
\* inputs_flows_as_dataframe(processes, possible_inputs, trace['inputs'][s], trace['F'][s])
CallInputsFlows(s) ==
    /\ call = NoCall
    /\ call' = [fn |-> "inputs_flows_as_dataframe", I |-> trace[s + 1].inputs, F |-> trace[s + 1].F]
    /\ ret' = Frame(inputs_flows_as_dataframe(processes, possible_inputs,
                                              trace[s + 1].inputs, trace[s + 1].F))
    /\ UNCHANGED <<env, widget, player, scale>>

\* flows_from_trace(processes, possible_inputs, trace, nburn, thin)
CallFlowsFromTrace(nburn, thin) ==
    /\ call = NoCall
    /\ call' = [fn |-> "flows_from_trace", nburn |-> nburn, thin |-> thin]
    /\ ret' = Frame(flows_from_trace(processes, possible_inputs, trace, nburn, thin))
    /\ UNCHANGED <<env, widget, player, scale>>

ConvNext ==
    \/ \E s \in 0..(Len(trace) - 1) : CallInputsFlows(s)
    \/ \E nburn \in 0..MaxBurn, thin \in 1..MaxThin : CallFlowsFromTrace(nburn, thin)

SpecConv == ConvInit /\ [][ConvNext]_vars

(***************************************************************************)
(* Properties of the converters.                                           *)
(***************************************************************************)
IsFrameCall == call.fn = "inputs_flows_as_dataframe" /\ ret.kind = "frame"

IsTraceCall == call.fn = "flows_from_trace" /\ ret.kind = "frame"

Ids == ProcessIds(processes)

Rows == ret.records

PositiveCells(F) == {c \in (1..Len(F)) \X (1..Len(F)) : F[c[1]][c[2]] > 0}

\* C1: the number of records of inputs_flows_as_dataframe whose source is a
\* process id equals the number of strictly positive cells of F.
C1_MatrixRecordCount ==
    IsFrameCall =>
        Cardinality({k \in 1..Len(Rows) : \E n \in 1..Len(Ids) : Rows[k][1] = Ids[n]})
            = Cardinality(PositiveCells(call.F))

C1_Witness ==
    /\ IsFrameCall
    /\ Cardinality(PositiveCells(call.F)) >= 2
    /\ \E i, j \in 1..Len(call.F) : call.F[i][j] < 0
    /\ \E i, j \in 1..Len(call.F) : call.F[i][j] = 0
    /\ \E i \in 1..Len(call.I) : call.I[i] > 0

\* the Python positions of the trace that trace[nburn::thin] selects
SlicePositions == {p \in 0..(Len(trace) - 1) : p >= call.nburn /\ (p - call.nburn) % call.thin = 0}

\* the samples at those positions, by increasing position
CallSlice ==
    [n \in 1..Cardinality(SlicePositions) |-> trace[call.nburn + (n - 1) * call.thin + 1]]

\* C2: zero and negative entries never produce edge records, in either
\* converter: every record has a value > 0, and an inputs entry or a matrix
\* cell that is <= 0 has no record.
C2_OnlyPositiveEntries ==
    /\ IsFrameCall =>
        /\ \A k \in 1..Len(Rows) : Rows[k][4] > 0
        /\ \A i \in 1..Len(call.I) : call.I[i] <= 0 =>
              ~ \E k \in 1..Len(Rows) : Rows[k][1] = "inputs" /\ Rows[k][2] = possible_inputs[i]
        /\ \A i, j \in 1..Len(call.F) : call.F[i][j] <= 0 =>
              ~ \E k \in 1..Len(Rows) : Rows[k][1] = Ids[i] /\ Rows[k][2] = Ids[j]
    /\ IsTraceCall =>
        /\ \A k \in 1..Len(Rows) : Rows[k][5] > 0
        /\ \A n \in 1..Len(CallSlice) :
            /\ \A j \in 1..NumIn : CallSlice[n].inputs[j] <= 0 =>
                  ~ \E k \in 1..Len(Rows) :
                        Rows[k][1] = "inputs" /\ Rows[k][2] = possible_inputs[j] /\ Rows[k][4] = n - 1
            /\ \A i, j \in 1..NumProc : CallSlice[n].F[i][j] <= 0 =>
                  ~ \E k \in 1..Len(Rows) :
                        Rows[k][1] = Ids[i] /\ Rows[k][2] = Ids[j] /\ Rows[k][4] = n - 1

C2_Witness ==
    /\ IsTraceCall
    /\ Len(CallSlice) >= 2
    /\ Len(Rows) >= 2
    /\ \E n \in 1..Len(CallSlice) :
        /\ \E j \in 1..NumIn : CallSlice[n].inputs[j] <= 0
        /\ \E i, j \in 1..NumProc : CallSlice[n].F[i][j] < 0
        /\ \E i, j \in 1..NumProc : CallSlice[n].F[i][j] = 0

\* every candidate record of inputs_flows_as_dataframe in emission order:
\* the inputs entries by increasing index, then the cells in row-major order
Candidates(ids, pin, I, F) ==
    [c \in 1..(Len(I) + Len(F) * Len(F)) |->
        IF c <= Len(I)
        THEN <<"inputs", pin[c], "?", I[c]>>
        ELSE <<ids[((c - Len(I) - 1) \div Len(F)) + 1], ids[((c - Len(I) - 1) % Len(F)) + 1], "?",
               F[((c - Len(I) - 1) \div Len(F)) + 1][((c - Len(I) - 1) % Len(F)) + 1]>>]

HasPositiveValue(r) == r[4] > 0

\* C3: inputs_flows_as_dataframe returns exactly the positive inputs entries
\* by increasing index as ('inputs', name, '?', value), then the positive
\* cells in row-major order as (row id, column id, '?', value), with ids in
\* the registry's iteration order; the spec's example yields its two records.
C3_ExactRecordSequence ==
    /\ IsFrameCall =>
          Rows = SelectSeq(Candidates(Ids, possible_inputs, call.I, call.F), HasPositiveValue)
    /\ inputs_flows_as_dataframe(<<[id |-> "A", meta |-> "_"], [id |-> "B", meta |-> "_"]>>,
                                 <<"x", "y">>, <<5, 0>>, <<<<0, 2>>, <<0, 0>>>>)
          = <<(<<"inputs", "x", "?", 5>>), (<<"A", "B", "?", 2>>)>>

C3_Witness ==
    /\ IsFrameCall
    /\ Ids[1] = "B"
    /\ call.I[1] > 0
    /\ call.F[1][2] > 0
    /\ call.F[2][1] > 0
    /\ call.F[1][1] <= 0

\* the entry of the sample at Python position p that a record names
EntryAt(p, r) ==
    {v \in {trace[p + 1].inputs[j] : j \in {j \in 1..NumIn : r[1] = "inputs" /\ r[2] = possible_inputs[j]}}
           \cup {trace[p + 1].F[c[1]][c[2]] :
                    c \in {c \in (1..NumProc) \X (1..NumProc) : r[1] = Ids[c[1]] /\ r[2] = Ids[c[2]]}} :
        TRUE}

\* C4 as stated: the 'sample' field of every record of flows_from_trace is
\* the position of its originating sample in the trace, one of nburn,
\* nburn + thin, ... below the trace length.
C4_SampleIsTracePosition ==
    IsTraceCall =>
        \A k \in 1..Len(Rows) : Rows[k][4] \in SlicePositions /\ Rows[k][5] \in EntryAt(Rows[k][4], Rows[k])

\* C4 amended: the 'sample' field of every record of flows_from_trace is the
\* 0-based position n of its originating sample within the slice
\* trace[nburn::thin]; n is below the length of the slice, and the record's
\* value is the entry of the trace sample at position nburn + n * thin.
C4_SampleIsSlicePosition ==
    IsTraceCall =>
        \A k \in 1..Len(Rows) :
            /\ Rows[k][4] \in 0..(Len(CallSlice) - 1)
            /\ (call.nburn + Rows[k][4] * call.thin) \in SlicePositions
            /\ Rows[k][5] \in EntryAt(call.nburn + Rows[k][4] * call.thin, Rows[k])

C4_Witness ==
    /\ IsTraceCall
    /\ call.nburn > 0
    /\ call.thin > 1
    /\ \E k \in 1..Len(Rows) : Rows[k][4] = 1

DropSample(r) == <<r[1], r[2], r[3], r[5]>>

RowsOfSample(n) ==
    LET IsOfSample(r) == r[4] = n
        sel == SelectSeq(Rows, IsOfSample)
    IN  [k \in 1..Len(sel) |-> DropSample(sel[k])]

\* C5: for every sample of the slice trace[nburn::thin], the records of
\* flows_from_trace tagged with it, without the sample field, are the
\* records of inputs_flows_as_dataframe for that sample, in the same order;
\* records of an earlier slice sample precede those of a later one, and no
\* record is tagged with anything else.
C5_TraceIsPerSampleConversion ==
    IsTraceCall =>
        /\ \A n \in 1..Len(CallSlice) :
              RowsOfSample(n - 1) = inputs_flows_as_dataframe(processes, possible_inputs,
                                                              CallSlice[n].inputs, CallSlice[n].F)
        /\ \A k \in 1..Len(Rows) : Rows[k][4] \in 0..(Len(CallSlice) - 1)
        /\ \A k, m \in 1..Len(Rows) : k < m => Rows[k][4] <= Rows[m][4]

C5_Witness ==
    /\ IsTraceCall
    /\ call.nburn > 0
    /\ Len(CallSlice) = 2
    /\ Len(RowsOfSample(0)) >= 2
    /\ Len(RowsOfSample(1)) >= 2
    /\ RowsOfSample(0) # RowsOfSample(1)

(***************************************************************************)
(* show_sample                                                             *)
(***************************************************************************)
\* an optional argument: None, or a given value
NoneArg == <<>>

Some(v) == <<v>>

Error(name) == [kind |-> "error", error |-> name]

\* the diagram definition handed through to weave; never inspected
Sdd == "sdd"

\* Dataset(dataframe): the records of the frame
Dataset(records) == records

\* weave(sdd, dataset): the woven diagram of the dataset's records
Weave(sdd, dataset) == [sdd |-> sdd, links |-> dataset]

Margins == [left |-> 50, right |-> 100, top |-> 10, bottom |-> 10]

\* result.to_widget(width, height, margins): a new widget object; its scale
\* is <<>> until set_scale fits one
ToWidget(result, width, height, margins) ==
    [kind |-> "widget", value |-> result, links |-> result.links,
     width |-> width, height |-> height, margins |-> margins, scale |-> <<>>]

\* seq[p] for a Python index p, negative ones counting from the end
PyIndexOK(len, p) == 0 - len <= p /\ p < len

PyIndex(seq, p) == IF p >= 0 THEN seq[p + 1] ELSE seq[Len(seq) + p + 1]

RECURSIVE SumSeq(_)
SumSeq(xs) == IF Len(xs) = 0 THEN 0 ELSE Head(xs) + SumSeq(Tail(xs))

\* numpy's mean of a non-empty column
Mean(xs) == SumSeq(xs) \div Len(xs)

\* trace['inputs', burn:].mean(axis=0)
MeanInputs(sl) == [j \in 1..Len(sl[1].inputs) |-> Mean([k \in 1..Len(sl) |-> sl[k].inputs[j]])]

\* trace['F', burn:].mean(axis=0)
MeanFlows(sl) ==
    [i \in 1..Len(sl[1].F) |-> [j \in 1..Len(sl[1].F) |-> Mean([k \in 1..Len(sl) |-> sl[k].F[i][j]])]]

\* the dataset of show_sample.  The mean of an empty slice is NaN in every
\* entry, and NaN > 0 is false: the frame then has no records.
ShowSampleDataset(procs, pin, tr, is, burn) ==
    IF is = NoneArg
    THEN IF Len(Slice(tr, burn, 1)) = 0 THEN Dataset(<<>>)
         ELSE Dataset(inputs_flows_as_dataframe(procs, pin, MeanInputs(Slice(tr, burn, 1)),
                                                MeanFlows(Slice(tr, burn, 1))))
    ELSE Dataset(inputs_flows_as_dataframe(procs, pin, PyIndex(tr, is[1]).inputs, PyIndex(tr, is[1]).F))

\* `if widget is None: return new_widget / else: widget.value = new_widget.value`:
\* what is returned, and the state of the caller's widget afterwards
ShowSampleOutcomeReplacing(given, held, new_widget) ==
    IF ~ given THEN [ret |-> new_widget, widget |-> held]
    ELSE [ret |-> [kind |-> None], widget |-> new_widget]

ShowSampleOutcome(given, held, new_widget) ==
    IF ~ given THEN [ret |-> new_widget, widget |-> held]
    ELSE [ret |-> [kind |-> None], widget |-> [held EXCEPT !.value = new_widget.value]]

\* the default of show_sample's burn argument
DefaultBurn == 500

\* show_sample(processes, possible_inputs, trace, isamp, sdd, widget, burn);
\* `given` says whether the caller passes the widget it holds, and call.held
\* records that widget as it was when the call was made
ShowSample(is, given, burn) ==
    /\ given => widget.kind = "widget"
    /\ call' = [fn |-> "show_sample", isamp |-> is, given |-> given, burn |-> burn, held |-> widget]
    /\ IF is # NoneArg /\ ~ PyIndexOK(Len(trace), is[1])
       THEN ret' = Error("IndexError") /\ widget' = widget
       ELSE LET new_widget == ToWidget(Weave(Sdd, ShowSampleDataset(processes, possible_inputs,
                                                                   trace, is, burn)),
                                       600, 300, Margins)
                out == ShowSampleOutcome(given, widget, new_widget)
            IN  ret' = out.ret /\ widget' = out.widget
    /\ UNCHANGED <<env, player, scale>>

\* the caller, holding no widget yet, keeps the handle show_sample returned
KeepWidget ==
    /\ widget.kind = None
    /\ call.fn = "show_sample"
    /\ ret.kind = "widget"
    /\ widget' = ret
    /\ call' = [fn |-> "keep"]
    /\ UNCHANGED <<env, ret, player, scale>>

ShowInit ==
    /\ EnvInit(InOrder, Bases({1}), MaxLen)
    /\ Idle

ShowNext ==
    \/ \E given \in BOOLEAN, burn \in (0..MaxBurn) \cup {DefaultBurn} : ShowSample(NoneArg, given, burn)
    \/ \E given \in BOOLEAN, n \in (0 - 1)..(MaxLen - 1) : ShowSample(Some(n), given, DefaultBurn)
    \/ KeepWidget

SpecShow == ShowInit /\ [][ShowNext]_vars

(***************************************************************************)
(* Properties of show_sample.                                              *)
(***************************************************************************)
\* the Python positions burn, burn + 1, ... of the trace
FromBurn == {p \in 0..(Len(trace) - 1) : p >= call.burn}

\* the sum of one entry over the samples at Python positions p, p + 1, ...
RECURSIVE SumFrom(_, _, _)
SumFrom(p, j, cell) ==
    IF p >= Len(trace) THEN 0
    ELSE (IF cell = <<>> THEN trace[p + 1].inputs[j] ELSE trace[p + 1].F[cell[1]][cell[2]])
             + SumFrom(p + 1, j, cell)

\* the frame of the per-entry means of the samples from burn onward
MeanFrame ==
    IF FromBurn = {} THEN <<>>
    ELSE SelectSeq(Candidates(Ids, possible_inputs,
                              [j \in 1..NumIn |-> SumFrom(call.burn, j, <<>>) \div Cardinality(FromBurn)],
                              [i \in 1..NumProc |-> [j \in 1..NumProc |->
                                  SumFrom(call.burn, 0, <<i, j>>) \div Cardinality(FromBurn)]]),
                   HasPositiveValue)

\* the frame of the single sample trace[isamp]
SampleFrame(p) ==
    SelectSeq(Candidates(Ids, possible_inputs,
                         trace[(IF p < 0 THEN Len(trace) + p ELSE p) + 1].inputs,
                         trace[(IF p < 0 THEN Len(trace) + p ELSE p) + 1].F),
              HasPositiveValue)

ShownFrame == IF call.isamp = NoneArg THEN MeanFrame ELSE SampleFrame(call.isamp[1])

ShownWidget ==
    [kind |-> "widget", value |-> [sdd |-> Sdd, links |-> ShownFrame], links |-> ShownFrame,
     width |-> 600, height |-> 300,
     margins |-> [left |-> 50, right |-> 100, top |-> 10, bottom |-> 10], scale |-> <<>>]

\* C8: show_sample either returns or mutates a widget handle: without a
\* widget it returns the newly woven widget and the widget the caller holds
\* is unchanged; with a widget it sets only that widget's value to the new
\* widget's value and returns nothing.  With isamp = None the dataset is the
\* per-entry mean of the samples from burn onward, otherwise it is the
\* single sample trace[isamp].
C8_ReturnOrMutate ==
    (call.fn = "show_sample" /\ ret.kind # "error") =>
        IF call.given
        THEN ret.kind = None /\ widget = [call.held EXCEPT !.value = ShownWidget.value]
        ELSE ret = ShownWidget /\ widget = call.held

C8_Witness ==
    /\ call.fn = "show_sample"
    /\ call.given
    /\ call.isamp = NoneArg
    /\ call.burn > 0
    /\ Cardinality(FromBurn) >= 2
    /\ Len(MeanFrame) >= 1
    /\ widget.links # widget.value.links
    /\ \E k \in 1..Len(MeanFrame) : \A p \in FromBurn : MeanFrame[k][4] \notin EntryAt(p, MeanFrame[k])

(***************************************************************************)
(* animate_samples                                                         *)
(***************************************************************************)
\* dataset(isamp): the frame of the sample at Python position i
AnimDataset(procs, pin, tr, i) ==
    Dataset(inputs_flows_as_dataframe(procs, pin, tr[i + 1].inputs, tr[i + 1].F))

\* the step of range(0, len(trace), 10)
FrameStep == 10

\* time.sleep(0.5), in tenths of a second
SleepTenths == 5

\* the first index of range(0, len(trace), 10)
FirstFrame == 0

NextFrameByOne(i) == i + 1

\* the next index of range(0, len(trace), 10)
NextFrame(i) == i + FrameStep

\* update(isamp): `widget.links = new_widget.links`
UpdateWidget(w, new_widget) == [w EXCEPT !.links = new_widget.links]

\* widget.set_scale(): the scale fitted to the links on display
SetScaleOf(w) == [w EXCEPT !.scale = <<w.links>>]

\* `except KeyboardInterrupt: return`: what the click handler ends with
OnKeyboardInterruptPropagating == Error("KeyboardInterrupt")

OnKeyboardInterrupt == [kind |-> None]

Running == {"update", "rescale", "sleep"}

\* animate_samples(processes, possible_inputs, trace, sdd, rescale) up to
\* `return box`; dataset(0) raises IndexError on an empty trace
AnimateSamples(rescale) ==
    /\ pc = "idle"
    /\ call' = [fn |-> "animate_samples", rescale |-> rescale]
    /\ IF Len(trace) = 0
       THEN /\ ret' = Error("IndexError")
            /\ pc' = "failed"
            /\ UNCHANGED <<widget, shown>>
       ELSE /\ widget' = ToWidget(Weave(Sdd, AnimDataset(processes, possible_inputs, trace, 0)),
                                  800, 500, Margins)
            /\ shown' = 0
            /\ ret' = [kind |-> "box", children |-> <<"button", "widget">>]
            /\ pc' = "ready"
    /\ UNCHANGED <<env, isamp, frames, scale>>

\* a click on 'Go': play(_) enters the try block and the for loop
Click ==
    /\ pc = "ready"
    /\ call' = [fn |-> "play", rescale |-> call.rescale, interrupted |-> FALSE, slept |-> 0]
    /\ isamp' = FirstFrame
    /\ frames' = <<>>
    /\ IF FirstFrame < Len(trace)
       THEN pc' = "update" /\ ret' = ret
       ELSE pc' = "ready" /\ ret' = [kind |-> None]
    /\ UNCHANGED <<env, widget, shown, scale>>

\* update(i)
Update ==
    /\ pc = "update"
    /\ widget' = UpdateWidget(widget,
                              ToWidget(Weave(Sdd, AnimDataset(processes, possible_inputs, trace, isamp)),
                                       600, 300, Margins))
    /\ frames' = Append(frames, isamp)
    /\ shown' = isamp
    /\ pc' = IF call.rescale THEN "rescale" ELSE "sleep"
    /\ UNCHANGED <<env, call, ret, isamp, scale>>

\* if rescale: widget.set_scale()
SetScale ==
    /\ pc = "rescale"
    /\ widget' = SetScaleOf(widget)
    /\ pc' = "sleep"
    /\ UNCHANGED <<env, call, ret, isamp, frames, shown, scale>>

\* time.sleep(0.5), then the next iteration of the for loop or its end
Sleep ==
    /\ pc = "sleep"
    /\ call' = [call EXCEPT !.slept = @ + SleepTenths]
    /\ isamp' = NextFrame(isamp)
    /\ IF NextFrame(isamp) < Len(trace)
       THEN pc' = "update" /\ ret' = ret
       ELSE pc' = "ready" /\ ret' = [kind |-> None]
    /\ UNCHANGED <<env, widget, frames, shown, scale>>

\* KeyboardInterrupt raised anywhere inside the try block
Interrupt ==
    /\ pc \in Running
    /\ call' = [call EXCEPT !.interrupted = TRUE]
    /\ ret' = OnKeyboardInterrupt
    /\ pc' = "ready"
    /\ UNCHANGED <<env, widget, isamp, frames, shown, scale>>

AnimInit ==
    /\ EnvInit(InOrder, Bases({1}), MaxAnimLen)
    /\ Idle

AnimNext ==
    \/ \E rescale \in BOOLEAN : AnimateSamples(rescale)
    \/ Click
    \/ Update
    \/ SetScale
    \/ Sleep
    \/ Interrupt

SpecAnim == AnimInit /\ [][AnimNext]_vars

\* the handler runs on once started: each of its steps is eventually taken
FairSpecAnim ==
    SpecAnim /\ WF_vars(Update) /\ WF_vars(SetScale) /\ WF_vars(Sleep)

(***************************************************************************)
(* Properties of animate_samples.                                          *)
(***************************************************************************)
IsPlay == call.fn = "play"

\* frames is 0, 10, 20, ... in this order
FramesInOrder == \A n \in 1..Len(frames) : frames[n] = 10 * (n - 1)

\* the widget of the box is the object built at construction, 800 x 500
SameWidget ==
    /\ widget.kind = "widget"
    /\ widget.width = 800
    /\ widget.height = 500
    /\ widget.value = [sdd |-> Sdd, links |-> SampleFrame(0)]

\* one sleep of half a second precedes every frame but the first
FixedDelay ==
    /\ pc = "update" => call.slept = 5 * Len(frames)
    /\ pc \in {"rescale", "sleep"} => call.slept = 5 * (Len(frames) - 1)

PlaySafe ==
    IsPlay =>
        /\ FramesInOrder
        /\ SameWidget
        /\ FixedDelay
        /\ frames # <<>> => widget.links = SampleFrame(frames[Len(frames)])
        /\ call.interrupted => (pc = "ready" /\ ret.kind = None)
        /\ Len(frames) <= (Len(trace) + 9) \div 10

\* C6: the animation started by 'Go' steps through samples of the trace in
\* increasing index order, updating the same widget in place once per frame
\* with a fixed delay between frames; it terminates after finitely many
\* frames, and a KeyboardInterrupt at any point of the loop ends it cleanly:
\* no further frame is shown and no error leaves the click handler.
C6_AnimationLoop ==
    /\ []PlaySafe
    /\ [][(IsPlay /\ call.interrupted /\ call'.fn = "play" /\ call'.interrupted)
              => (frames' = frames /\ widget' = widget)]_vars
    /\ (pc \in Running) ~> (pc = "ready")

C6_Witness ==
    /\ IsPlay
    /\ call.interrupted
    /\ Len(frames) = 2
    /\ Len(trace) > 20
    /\ widget.links # widget.value.links

\* C9: the widget of animate_samples only ever shows links of a sample whose
\* index is a multiple of 10 below len(trace).  It is created from sample 0,
\* so construction fails on an empty trace; each click restarts at sample 0
\* and, uninterrupted, issues exactly ceil(len(trace) / 10) updates for 0,
\* 10, 20, ...; an update changes only the widget's links, and after an
\* interrupt the links of the previously shown sample stay.
C9_ShownSamples ==
    /\ call.fn = "animate_samples" =>
          IF Len(trace) = 0
          THEN ret.kind = "error" /\ widget.kind = None
          ELSE /\ ret.kind = "box"
               /\ shown = 0
               /\ widget.links = SampleFrame(0)
               /\ SameWidget
    /\ widget.kind = "widget" =>
          /\ shown % 10 = 0
          /\ shown < Len(trace)
          /\ widget.links = SampleFrame(shown)
          /\ SameWidget
          /\ widget.margins = [left |-> 50, right |-> 100, top |-> 10, bottom |-> 10]
          /\ ~ call.rescale => widget.scale = <<>>
    /\ IsPlay =>
          /\ FramesInOrder
          /\ (pc = "update" /\ frames = <<>>) => isamp = 0
          /\ frames # <<>> => shown = frames[Len(frames)]
          /\ (pc = "ready" /\ ~ call.interrupted) => Len(frames) = (Len(trace) + 9) \div 10

C9_Witness ==
    /\ IsPlay
    /\ pc = "ready"
    /\ ~ call.interrupted
    /\ frames = <<0, 10, 20>>
    /\ shown = 20
    /\ widget.links # SampleFrame(0)
    /\ widget.links # SampleFrame(10)

(***************************************************************************)
(* weave_variance, show_variance, save_variance and the two scales         *)
(***************************************************************************)
\* a non-negative fraction n / d in lowest terms (d > 0)
Rat(n, d) == <<n \div Gcd(n, d), d \div Gcd(n, d)>>

RatLeq(a, b) == a[1] * b[2] <= b[1] * a[2]

MinOf(xs) == CHOOSE m \in {xs[k] : k \in 1..Len(xs)} : \A k \in 1..Len(xs) : m <= xs[k]

MaxOf(xs) == CHOOSE m \in {xs[k] : k \in 1..Len(xs)} : \A k \in 1..Len(xs) : m >= xs[k]

\* pm.hpd(x): with fewer than 20 samples the 95% interval spans all of them
Hpd(x) == <<MinOf(x), MaxOf(x)>>

\* hpd = pm.hpd(x); return hpd[1] - hpd[0]
hpd_range(x) == Hpd(x)[2] - Hpd(x)[1]

\* AbsoluteHPDRangeScale.get_value, in the units of the flow values
AbsoluteGetValue(measures) == Rat(hpd_range(measures.value), 1)

\* NormalisedHPDRangeScale.get_value
NormalisedGetValue(measures) == Rat(hpd_range(measures.value), Mean(measures.value))

GetValue(sc, measures) ==
    IF sc.class = "NormalisedHPDRangeScale" THEN NormalisedGetValue(measures)
    ELSE AbsoluteGetValue(measures)

\* QuantitativeScale(attr, palette): a scale whose domain is not set yet
NewScale(class, attr, palette) == [class |-> class, attr |-> attr, palette |-> palette, domain |-> NoneArg]

\* scale.set_domain(domain)
SetDomain(sc, domain) == [sc EXCEPT !.domain = Some(domain)]

\* scale.get_domain()
GetDomain(sc) == sc.domain

\* `if palette is None: palette = sequential.Reds_9.mpl_colormap`
DefaultPalette(palette) == IF palette = NoneArg THEN "Reds_9" ELSE palette[1]

\* `NormalisedHPDRangeScale(...) if normed else AbsoluteHPDRangeScale(...)`
ChooseScale(normed, palette) ==
    IF normed THEN NewScale("NormalisedHPDRangeScale", "value", palette)
    ELSE NewScale("AbsoluteHPDRangeScale", "value", palette)

\* `if vlim is not None: scale.set_domain(vlim)`
ApplyVlimIgnored(sc, vlim) == sc

ApplyVlim(sc, vlim) == IF vlim # NoneArg THEN SetDomain(sc, vlim[1]) ELSE sc

\* the edges of the sampled flows: the (source, target) pairs with records
EdgesOf(flows) == {<<flows[k][1], flows[k][2]>> : k \in 1..Len(flows)}

\* measures(group): group.groupby('sample').agg({'value': 'sum'}), the sums
\* of the edge's values per sample, by increasing sample
RECURSIVE SumOfSample(_, _, _, _)
SumOfSample(flows, edge, tag, k) ==
    IF k > Len(flows) THEN 0
    ELSE (IF <<flows[k][1], flows[k][2]>> = edge /\ flows[k][4] = tag THEN flows[k][5] ELSE 0)
             + SumOfSample(flows, edge, tag, k + 1)

RECURSIVE SumsBySample(_, _, _, _)
SumsBySample(flows, edge, tag, last) ==
    IF tag > last THEN <<>>
    ELSE (IF \E k \in 1..Len(flows) : <<flows[k][1], flows[k][2]>> = edge /\ flows[k][4] = tag
          THEN <<SumOfSample(flows, edge, tag, 1)>> ELSE <<>>)
             \o SumsBySample(flows, edge, tag + 1, last)

Measures(flows, edge) ==
    [value |-> SumsBySample(flows, edge, 0, MaxOf([k \in 1..Len(flows) |-> flows[k][4]]))]

\* link_width(data): data['value'].mean()
LinkWidth(data) == Mean(data.value)

\* what weave does with a quantitative link_color scale: a scale without a
\* domain takes the smallest and the largest get_value of the links as its
\* domain, a scale with a domain keeps it
DomainFrom(sc, flows) ==
    LET vals == {GetValue(sc, Measures(flows, e)) : e \in EdgesOf(flows)}
    IN  <<CHOOSE lo \in vals : \A v \in vals : RatLeq(lo, v),
          CHOOSE hi \in vals : \A v \in vals : RatLeq(v, hi)>>

Fitted(sc, flows) == IF sc.domain = NoneArg THEN SetDomain(sc, DomainFrom(sc, flows)) ELSE sc

\* weave(sdd, flows, measures=measures, link_width=link_width, link_color=scale):
\* the woven diagram, and the scale object as weave leaves it
WeaveColoured(sdd, flows, sc) ==
    [result |-> [sdd |-> sdd,
                 links |-> {[source |-> e[1], target |-> e[2],
                             width |-> LinkWidth(Measures(flows, e)),
                             hue |-> GetValue(sc, Measures(flows, e))] : e \in EdgesOf(flows)},
                 palette |-> sc.palette,
                 domain |-> Fitted(sc, flows).domain[1]],
     scale |-> Fitted(sc, flows)]

\* `return result, scale.get_domain()`
ReturnedDomain(sc, woven) == GetDomain(woven.scale)

\* weave_variance(flows, sdd, normed, vlim, palette): the pair it returns,
\* and the scale object it built
weave_variance(flows, sdd, normed, vlim, palette) ==
    LET sc == ApplyVlim(ChooseScale(normed, DefaultPalette(palette)), vlim)
        woven == WeaveColoured(sdd, flows, sc)
    IN  [result |-> woven.result, domain |-> ReturnedDomain(sc, woven), scale |-> woven.scale]

\* the names bound at module level of trace_sankey_helpers.py
ModuleNames ==
    {"time", "np", "pd", "ipywidgets", "Dataset", "weave", "qualitative", "sequential",
     "inputs_flows_as_dataframe", "flows_from_trace", "show_sample", "animate_samples",
     "floweaver", "SankeyWidget", "mpl", "plt", "pm", "hpd_range", "rgb2hex",
     "weave_variance", "show_variance", "save_variance", "_calc_variance",
     "AbsoluteHPDRangeScale", "NormalisedHPDRangeScale", "colorbar"}

\* the names bound in show_variance after `result, vlim = weave_variance(...)`
ShowVarianceLocals == {"flows", "sdd", "normed", "vlim", "width", "palette", "result"}

\* Python's lookup of a name used in a function body
Resolve(name, locals) ==
    IF name \in locals THEN "local"
    ELSE IF name \in ModuleNames THEN "global"
    ELSE "NameError"

\* the flows handed to the variance wrappers: every sample of the trace
VarFlows == flows_from_trace(processes, possible_inputs, trace, 0, 1)

\* The calls below are those for which weave succeeds: flows has an edge.
\* The wrappers keep nothing between calls, so each is called on a fresh
\* session only.
CallWeaveVariance(normed, vlim, palette) ==
    /\ call = NoCall
    /\ Len(VarFlows) > 0
    /\ call' = [fn |-> "weave_variance", normed |-> normed, vlim |-> vlim, palette |-> palette]
    /\ LET out == weave_variance(VarFlows, Sdd, normed, vlim, palette)
       IN  /\ ret' = [kind |-> "tuple", result |-> out.result, domain |-> out.domain]
           /\ scale' = out.scale
    /\ UNCHANGED <<env, widget, player>>

\* show_variance(flows, sdd, normed, vlim, width, palette): `scale` in the
\* colorbar call is looked up as a name of show_variance
CallShowVariance(normed, vlim, width, palette) ==
    /\ call = NoCall
    /\ Len(VarFlows) > 0
    /\ LET out == weave_variance(VarFlows, Sdd, normed, vlim, palette)
       IN  /\ scale' = out.scale
           /\ IF Resolve("scale", ShowVarianceLocals) = "NameError"
              THEN /\ ret' = Error("NameError")
                   /\ call' = [fn |-> "show_variance", normed |-> normed, vlim |-> vlim,
                               palette |-> palette, width |-> width, colorbar |-> NoneArg]
              ELSE /\ ret' = ToWidget(out.result, width, 400,
                                      [top |-> 15, bottom |-> 10, left |-> 100, right |-> 100])
                   /\ call' = [fn |-> "show_variance", normed |-> normed, vlim |-> vlim,
                               palette |-> palette, width |-> width,
                               colorbar |-> Some([cmap |-> palette, domain |-> out.scale.domain[1],
                                                  label |-> IF normed
                                                            THEN "Credible interval width (normalised)"
                                                            ELSE "Credible interval width [Mt]"])]
    /\ UNCHANGED <<env, widget, player>>

\* save_variance(flows, sdd, normed, vlim, palette): `return result.to_json()`
SaveVarianceReturn(out) == [kind |-> "json", of |-> out.result]

CallSaveVariance(normed, vlim, palette) ==
    /\ call = NoCall
    /\ Len(VarFlows) > 0
    /\ call' = [fn |-> "save_variance", normed |-> normed, vlim |-> vlim, palette |-> palette]
    /\ LET out == weave_variance(VarFlows, Sdd, normed, vlim, palette)
       IN  /\ ret' = SaveVarianceReturn(out)
           /\ scale' = out.scale
    /\ UNCHANGED <<env, widget, player>>

\* the vlim arguments tried: none, and two explicit domains
Vlims == {NoneArg, Some(<<Rat(0, 1), Rat(Unit, 1)>>), Some(<<Rat(1, 2), Rat(3, 2)>>)}

Palettes == {NoneArg, Some("Blues_9")}

VarInit ==
    /\ EnvInit(InOrder, Bases((1..MaxVal) \cup {-1}), MaxLen)
    /\ Idle

VarNext ==
    \/ \E normed \in BOOLEAN, vlim \in Vlims, palette \in Palettes :
          CallWeaveVariance(normed, vlim, palette)
    \/ \E normed \in BOOLEAN, vlim \in Vlims, palette \in Palettes :
          CallShowVariance(normed, vlim, 800, palette)
    \/ \E normed \in BOOLEAN, vlim \in Vlims, palette \in Palettes :
          CallSaveVariance(normed, vlim, palette)

SpecVar == VarInit /\ [][VarNext]_vars

(***************************************************************************)
(* Properties of the variance wrappers.                                    *)
(***************************************************************************)
\* C7: show_variance, whenever weave_variance succeeds, draws a colorbar
\* over the colour scale's domain and returns a widget built from the woven
\* result; it never ends in an error of its own.
C7_ShowVarianceReturnsWidget ==
    call.fn = "show_variance" =>
        /\ ret.kind = "widget"
        /\ call.colorbar # NoneArg
        /\ call.colorbar[1].domain = scale.domain[1]

\* the values of one edge per sample, by increasing sample
EdgeValues(e) ==
    LET OfEdge(r) == r[1] = e[1] /\ r[2] = e[2]
        sel == SelectSeq(VarFlows, OfEdge)
    IN  [k \in 1..Len(sel) |-> sel[k][5]]

\* the statistic of one edge: the width of the interval of its values,
\* divided by their mean when normed
Statistic(e, normed) ==
    LET v == EdgeValues(e)
        width == MaxOf(v) - MinOf(v)
    IN  IF normed THEN Rat(width, SumSeq(v) \div Len(v)) ELSE Rat(width, 1)

IsExtent(d, normed) ==
    /\ \E e \in EdgesOf(VarFlows) : d[1] = Statistic(e, normed)
    /\ \E e \in EdgesOf(VarFlows) : d[2] = Statistic(e, normed)
    /\ \A e \in EdgesOf(VarFlows) :
          RatLeq(d[1], Statistic(e, normed)) /\ RatLeq(Statistic(e, normed), d[2])

\* C10: weave_variance chooses the normalised scale iff normed; a given
\* vlim is the scale's domain when the diagram is woven and is the domain
\* returned; without vlim weave_variance sets no domain and returns the one
\* the scale derived during weaving.  save_variance returns the JSON of the
\* same woven result and no domain.
C10_WeaveVariance ==
    /\ call.fn = "weave_variance" =>
          /\ scale.class = (IF call.normed THEN "NormalisedHPDRangeScale" ELSE "AbsoluteHPDRangeScale")
          /\ \A l \in ret.result.links : l.hue = Statistic(<<l.source, l.target>>, call.normed)
          /\ ret.domain = scale.domain
          /\ ret.domain = Some(ret.result.domain)
          /\ IF call.vlim # NoneArg
             THEN ret.domain = call.vlim
             ELSE IsExtent(ret.domain[1], call.normed)
    /\ call.fn = "save_variance" =>
          /\ ret.kind = "json"
          /\ DOMAIN ret = {"kind", "of"}
          /\ ret.of = weave_variance(VarFlows, Sdd, call.normed, call.vlim, call.palette).result
          /\ \A l \in ret.of.links : l.hue = Statistic(<<l.source, l.target>>, call.normed)
          /\ IF call.vlim # NoneArg
             THEN Some(ret.of.domain) = call.vlim
             ELSE IsExtent(ret.of.domain, call.normed)

C10_Witness ==
    /\ call.fn = "weave_variance"
    /\ call.normed
    /\ call.vlim = NoneArg
    /\ Cardinality(ret.result.links) >= 2
    /\ ret.domain[1][1] # ret.domain[1][2]
    /\ ret.domain[1][2][2] > 1

====
